---- MODULE Spec2Model ----
(***************************************************************************)
(* Model of rsa.c: fixed-width multi-precision arithmetic for              *)
(* M^65537 mod N.  A number is an array of words, least-significant word   *)
(* first.  A pointer into a buffer is modelled as the buffer together with *)
(* a word offset.  The word width (16 bits in rsa.c) and the number size   *)
(* (MPI_NUMBER_SIZE of rsa.h) are configuration fixed before the first     *)
(* step; every mask, shift and integer width is expressed in word widths.  *)
(* int is taken to be at least two words wide, as rsa.c takes it: a sum or *)
(* a product of two words is formed in int before it reaches a uint32_t.   *)
(***************************************************************************)
EXTENDS Integers, Sequences, FiniteSets, TLC

VARIABLES
    MPI_NUMBER_SIZE,  \* words of a single-width number (compile-time)
    wbits,            \* bits of a word (compile-time; uint16_t in rsa.c)
    pc,               \* position of the running routine
    arg,              \* buffers handed to a leaf routine, as they were on entry
    out,              \* the same buffers and the return value after the call
    moduu,            \* frame of mpi_moduu
    powm              \* frame of mpi_powm65537

vars == <<MPI_NUMBER_SIZE, wbits, pc, arg, out, moduu, powm>>

----------------------------------------------------------------------------
(* Bounds of the model *)

\* number size the routines are checked at
NumberSize == 2
\* word width the routines are checked at
WordBits == 3
\* operands of up to this many bits are enumerated exhaustively
ExhaustiveBits == 6

----------------------------------------------------------------------------
(* Words and integer widths *)

\* 0x10000
Base == 2 ^ wbits
\* 0x8000
HalfBase == Base \div 2
Words == 0 .. (Base - 1)

U8(x) == x % 256
\* uint32_t: two words wide
U32(x) == x % (Base * Base)
\* uint64_t: four words wide
U64(x) == ((x \div (Base * Base)) % (Base * Base)) * (Base * Base) + (x % (Base * Base))

\* number of times the body of  do { ... } while(--count)  runs, count a uint8_t
DoWhile(count) == IF U8(count) = 0 THEN 256 ELSE U8(count)

\* a load or a store through a pointer.  Outside the buffer a load yields 0
\* and a store is dropped; no result rests on either: mpi_moduu is shown to
\* stay inside its buffers, and mpi_muluu, which can leave them, takes junk
\* for what it loads there and reports the overrun
Read(buf, i) == IF i \in DOMAIN buf THEN buf[i] ELSE 0
Write(buf, i, v) == IF i \in DOMAIN buf THEN [buf EXCEPT ![i] = v] ELSE buf

\* the integer held by len words of buf from offset off, little-endian
RECURSIVE Val(_, _, _)
Val(buf, off, len) ==
    IF len = 0 THEN 0 ELSE Read(buf, off) + Base * Val(buf, off + 1, len - 1)

\* independent arithmetic on integers
RECURSIVE ModExp(_, _, _)
ModExp(x, e, n) ==
    IF e = 0 THEN 1 % n
    ELSE LET h == ModExp(x, e \div 2, n)
             s == (h * h) % n
         IN IF e % 2 = 0 THEN s ELSE (s * (x % n)) % n

----------------------------------------------------------------------------
(* mpi_add: *dest += *src, returns the carry *)

RECURSIVE add_loop(_, _, _, _, _, _)
add_loop(dest, d, src, i, count, c) ==
    LET c1 == U32(c + Read(dest, d + i) + Read(src, i))
        dest1 == Write(dest, d + i, c1 % Base)
        c2 == c1 \div Base
    IN IF U8(count - 1) # 0
       THEN add_loop(dest1, d, src, i + 1, U8(count - 1), c2)
       ELSE [dest |-> dest1, ret |-> U8(c2 % 2)]

\* mutant: the carry starts at 1
mpi_add_carry_in(dest, d, src) == add_loop(dest, d, src, 0, U8(MPI_NUMBER_SIZE), 1)

mpi_add(dest, d, src) == add_loop(dest, d, src, 0, U8(MPI_NUMBER_SIZE), 0)

(* mpi_sub: *dest -= *src *)

RECURSIVE sub_loop(_, _, _, _, _, _)
sub_loop(dest, d, src, i, count, c) ==
    LET c1 == U32(c + (Base - 1) + Read(dest, d + i) - Read(src, i))
        dest1 == Write(dest, d + i, c1 % Base)
        c2 == (c1 \div Base) % 2
    IN IF U8(count - 1) # 0
       THEN sub_loop(dest1, d, src, i + 1, U8(count - 1), c2)
       ELSE dest1

\* mutant: the borrow chain starts at 0
mpi_sub_borrow_in(dest, d, src) == sub_loop(dest, d, src, 0, U8(MPI_NUMBER_SIZE), 0)

mpi_sub(dest, d, src) == sub_loop(dest, d, src, 0, U8(MPI_NUMBER_SIZE), 1)

(* mpi_cmp: sign of *a - *b *)

RECURSIVE cmp_loop(_, _, _, _, _)
cmp_loop(a, d, b, i, count) ==
    LET dif == Read(a, d + i) - Read(b, i)
    IN IF dif # 0 THEN (IF dif > 0 THEN 1 ELSE -1)
       ELSE IF U8(count - 1) # 0 THEN cmp_loop(a, d, b, i - 1, U8(count - 1))
       ELSE 0

mpi_cmp(a, d, b) == cmp_loop(a, d, b, MPI_NUMBER_SIZE - 1, U8(MPI_NUMBER_SIZE))

(* mpi_mulsubuuk: *c -= *a * b over MPI_NUMBER_SIZE+1 words of c *)

\* *a++ * b is a product of two promoted words: it is below 2^32, and what
\* is added to mcarry is that product (a product of 2^31 or more overflows
\* int and reaches the uint32_t as the same 32 bits)

RECURSIVE mulsub_loop(_, _, _, _, _, _, _, _)
mulsub_loop(c, d, a, b, i, count, nborrow, mcarry) ==
    LET mc1 == U32(mcarry + Read(a, i) * b)
        nb1 == U32(nborrow + (Base - 1) + Read(c, d + i) - (mc1 % Base))
        c1 == Write(c, d + i, nb1 % Base)
        mc2 == mc1 \div Base
        nb2 == (nb1 \div Base) % 2
    IN IF U8(count - 1) # 0
       THEN mulsub_loop(c1, d, a, b, i + 1, U8(count - 1), nb2, mc2)
       ELSE \* Subtract from the N+1th digit
            LET nb3 == U32(nb2 + (Base - 1) + Read(c1, d + i + 1) - (mc2 % Base))
            IN [c |-> Write(c1, d + i + 1, nb3 % Base),
                ret |-> U8((nb3 \div Base) % 2)]

\* mutant: nborrow starts at 0
mpi_mulsubuuk_borrow_in(c, d, a, b) ==
    mulsub_loop(c, d, a, b % Base, 0, U8(MPI_NUMBER_SIZE), 0, 0)

mpi_mulsubuuk(c, d, a, b) ==
    mulsub_loop(c, d, a, b % Base, 0, U8(MPI_NUMBER_SIZE), 1, 0)

(* mpi_muluu: *c = *a * *b, a double-width product *)

\* mutant: mcarry is a uint32_t
RECURSIVE mul_inner_narrow(_, _, _, _, _, _)
mul_inner_narrow(a, b, aa, bb, count2, mcarry) ==
    LET m1 == U32(mcarry + U32(Read(a, aa) * Read(b, bb)))
    IN IF U8(count2 - 1) # 0
       THEN mul_inner_narrow(a, b, aa + 1, bb - 1, U8(count2 - 1), m1)
       ELSE m1

\* inner loop of either sweep: mcarry += *aa++ * *bb--
RECURSIVE mul_inner(_, _, _, _, _, _)
mul_inner(a, b, aa, bb, count2, mcarry) ==
    LET m1 == U64(mcarry + U32(Read(a, aa) * Read(b, bb)))
    IN IF U8(count2 - 1) # 0
       THEN mul_inner(a, b, aa + 1, bb - 1, U8(count2 - 1), m1)
       ELSE m1

\* the inner loop started at aa, bb with count2 reads only a[0..N-1], b[0..N-1]
mul_inside(aa, bb, count2) ==
    /\ aa >= 0
    /\ aa + DoWhile(count2) <= MPI_NUMBER_SIZE
    /\ bb < MPI_NUMBER_SIZE
    /\ bb - DoWhile(count2) + 1 >= 0

\* *c++ = mcarry&0xFFFF, mcarry >>= 16, with mcarry = m1 after the inner loop
mul_store(s, m1, inside) ==
    [s EXCEPT !.c = Write(s.c, s.cp, m1 % Base),
              !.cp = s.cp + 1,
              !.mcarry = m1 \div Base,
              !.stores = s.stores + 1,
              !.oob = s.oob \/ ~inside \/ s.cp \notin DOMAIN s.c]

\* one column: the inner loop and the store.  A column that reads outside a
\* or b accumulates whatever lies there: junk.
mul_column(s, a, b, aa, bb, count2, junk) ==
    IF mul_inside(aa, bb, count2)
    THEN mul_store(s, mul_inner(a, b, aa, bb, count2, s.mcarry), TRUE)
    ELSE mul_store(s, junk, FALSE)

\* First outer loop - the LSWs
RECURSIVE mul_low(_, _, _, _)
RECURSIVE mul_low_while(_, _, _, _)
mul_low(s, a, b, junk) ==
    mul_low_while(
        mul_column([s EXCEPT !.niter2 = U8(s.niter2 + 1), !.bp = s.bp + 1,
                             !.count = U8(s.count - 1)],
                   a, b, s.ap, s.bp, s.niter2, junk),
        a, b, junk)
mul_low_while(s, a, b, junk) ==
    IF s.count # 0 THEN mul_low(s, a, b, junk) ELSE s

\* the rounds of the second sweep left when c++ is already outside the
\* caller's buffer: they only store outside it, and are taken in one step
mul_overrun(s, junk) ==
    [s EXCEPT !.cp = s.cp + DoWhile(s.count),
              !.ap = s.ap + DoWhile(s.count),
              !.niter2 = U8(s.niter2 - DoWhile(s.count)),
              !.stores = s.stores + DoWhile(s.count),
              !.mcarry = junk,
              !.count = 0,
              !.oob = TRUE]

\* count2 = --niter2, aa = ++a, bb = b
mul_high_enter(s) ==
    [s EXCEPT !.niter2 = U8(s.niter2 - 1), !.ap = s.ap + 1, !.count = U8(s.count - 1)]

\* Second outer loop - the MSWs
RECURSIVE mul_high(_, _, _, _)
RECURSIVE mul_high_round(_, _, _, _)
RECURSIVE mul_high_while(_, _, _, _)
mul_high(s, a, b, junk) ==
    IF s.cp \notin DOMAIN s.c
    THEN mul_overrun(s, junk)
    ELSE mul_high_round(mul_high_enter(s), a, b, junk)
mul_high_round(s, a, b, junk) ==
    mul_high_while(mul_column(s, a, b, s.ap, s.bp, s.niter2, junk), a, b, junk)
mul_high_while(s, a, b, junk) ==
    IF s.count # 0 THEN mul_high(s, a, b, junk) ELSE s

\* count = MPI_NUMBER_SIZE-1, b--, niter2--
mul_turn(s) ==
    [s EXCEPT !.count = U8(MPI_NUMBER_SIZE - 1),
              !.bp = s.bp - 1,
              !.niter2 = U8(s.niter2 - 1)]

\* Store the last carry digit
mul_last(s) ==
    [c |-> Write(s.c, s.cp, s.mcarry % Base),
     stores |-> s.stores + 1,
     oob |-> s.oob \/ s.cp \notin DOMAIN s.c]

\* c is the caller's buffer of 2N words; junk stands for memory outside a and b
mpi_muluu(c, a, b, junk) ==
    mul_last(mul_high(mul_turn(mul_low(
        [c |-> c, cp |-> 0, ap |-> 0, bp |-> 0, mcarry |-> 0,
         count |-> U8(MPI_NUMBER_SIZE), niter2 |-> 1,
         stores |-> 0, oob |-> FALSE],
        a, b, junk)), a, b, junk))

----------------------------------------------------------------------------
(* Inputs *)

\* the word values operands are drawn from
Digits ==
    IF MPI_NUMBER_SIZE * wbits <= ExhaustiveBits
    THEN Words
    ELSE {0, 1, HalfBase, Base - 1}

Numbers(len) == [0 .. (len - 1) -> Digits]

\* the double-width dividends handed to mpi_moduu
Dividends ==
    IF MPI_NUMBER_SIZE * wbits <= ExhaustiveBits
    THEN [0 .. (2 * MPI_NUMBER_SIZE - 1) -> Words]
    ELSE [0 .. (2 * MPI_NUMBER_SIZE - 1) -> {0, HalfBase, Base - 1}]
Zero(len) == [i \in 0 .. (len - 1) |-> 0]

\* Divisor's MSW must be >= 0x8000
Normalized(b) == b[MPI_NUMBER_SIZE - 1] >= HalfBase

Idle == "idle"

(* mpi_muluu called on its own *)

InitMul ==
    /\ MPI_NUMBER_SIZE = NumberSize
    /\ wbits = WordBits
    /\ pc = "call"
    /\ arg \in [a : Numbers(MPI_NUMBER_SIZE), b : Numbers(MPI_NUMBER_SIZE)]
    /\ out = Idle
    /\ moduu = Idle
    /\ powm = Idle

CallMul ==
    /\ pc = "call"
    /\ out' = [a |-> arg.a, b |-> arg.b,
               r |-> mpi_muluu(Zero(2 * MPI_NUMBER_SIZE), arg.a, arg.b, 0)]
    /\ pc' = "done"
    /\ UNCHANGED <<MPI_NUMBER_SIZE, wbits, arg, moduu, powm>>

NextMul == CallMul

SpecMul == InitMul /\ [][NextMul]_vars


----------------------------------------------------------------------------
(* mpi_moduu: *a %= *b, a of 2N words, b of N words *)

\* what the last round of the loop did (kept for the properties)
NoRound == [branch |-> "none", under |-> FALSE, nadd |-> 0, carry |-> 0, pq |-> 0, before |-> 0]

\* mutant: flag = 1 on entry
moduu_enter_flagged(a, b) ==
    [a |-> a, b |-> b, pr |-> MPI_NUMBER_SIZE, count |-> U8(MPI_NUMBER_SIZE + 1),
     flag |-> 1, fault |-> FALSE, a0 |-> a,
     lo |-> 2 * MPI_NUMBER_SIZE, hi |-> -1, blo |-> MPI_NUMBER_SIZE, bhi |-> -1,
     rounds |-> 0, last |-> NoRound]

\* the frame on entry: pr = a + MPI_NUMBER_SIZE, flag = 0
moduu_enter(a, b) ==
    [a |-> a, b |-> b,
     pr |-> MPI_NUMBER_SIZE,
     count |-> U8(MPI_NUMBER_SIZE + 1),
     flag |-> 0,
     fault |-> FALSE,
     a0 |-> a,            \* the dividend as passed
     lo |-> 2 * MPI_NUMBER_SIZE, hi |-> -1,   \* lowest and highest index of a touched so far
     blo |-> MPI_NUMBER_SIZE, bhi |-> -1,     \* the same for b
     rounds |-> 0,
     last |-> NoRound]

Min(x, y) == IF x < y THEN x ELSE y
Max(x, y) == IF x > y THEN x ELSE y

\* record that a[from..to] (and b[bfrom..bto]) was touched
touch(f, from, to, bfrom, bto) ==
    [f EXCEPT !.lo = Min(f.lo, from), !.hi = Max(f.hi, to),
              !.blo = Min(f.blo, bfrom), !.bhi = Max(f.bhi, bto)]

\* pr--, while(--count)
moduu_next(f) ==
    [f EXCEPT !.pr = f.pr - 1, !.count = U8(f.count - 1), !.rounds = f.rounds + 1]

\* pq = ((pr[N] << 16) | pr[N-1]) / b[N-1]
moduu_pq(f) ==
    U32(Read(f.a, f.pr + MPI_NUMBER_SIZE) * Base + Read(f.a, f.pr + MPI_NUMBER_SIZE - 1))
        \div Read(f.b, MPI_NUMBER_SIZE - 1)

\* carry += pr[N]; pr[N] = carry & 0xFFFF, with ad what mpi_add(pr, b) left
moduu_carry(ad, pr) ==
    [a |-> Write(ad.dest, pr + MPI_NUMBER_SIZE,
                 U32(ad.ret + Read(ad.dest, pr + MPI_NUMBER_SIZE)) % Base),
     carry |-> (U32(ad.ret + Read(ad.dest, pr + MPI_NUMBER_SIZE)) \div Base) % 2]

\* mutant: the carry of mpi_add is not added to pr[N]
moduu_addback_nocarry(a, pr, b) ==
    [a |-> mpi_add(a, pr, b).dest, carry |-> 0]

\* carry = mpi_add(pr, b); carry += pr[N]; pr[N] = carry & 0xFFFF
\* (.carry is the bit carry & 0x10000)
moduu_addback(a, pr, b) == moduu_carry(mpi_add(a, pr, b), pr)

\* flag = pr[N-1] != 0, then the end of the round
moduu_reflag(f, a1, last) ==
    moduu_next([f EXCEPT
        !.a = a1,
        !.flag = IF Read(a1, f.pr + MPI_NUMBER_SIZE - 1) # 0 THEN 1 ELSE 0,
        !.last = last])

\* the end of a flag-set round that added b back nadd times
trial_end(f, pq, a1, nadd, carry) ==
    moduu_reflag(touch(f, f.pr, f.pr + MPI_NUMBER_SIZE, 0, MPI_NUMBER_SIZE - 1), a1,
                 [branch |-> "trial", under |-> nadd > 0, nadd |-> nadd,
                  carry |-> carry, pq |-> pq,
                  before |-> Val(f.a, f.pr, MPI_NUMBER_SIZE + 1)])

\* Trial pq was still too high, add the divisor back again
trial_second(f, pq, ab2) == trial_end(f, pq, ab2.a, 2, ab2.carry)

\* trial pq was too high, add the divisor back and check
trial_first(f, pq, ab1) ==
    IF ab1.carry = 0
    THEN trial_second(f, pq, moduu_addback(ab1.a, f.pr, f.b))
    ELSE trial_end(f, pq, ab1.a, 1, ab1.carry)

\* if(!mpi_mulsubuuk(pr,b,pq)), with ms what the call left
trial_subtracted(f, pq, ms) ==
    IF ms.ret = 0
    THEN trial_first(f, pq, moduu_addback(ms.c, f.pr, f.b))
    ELSE trial_end(f, pq, ms.c, 0, 0)

\* Multiply the divisor by pq, subtract the result from PR
trial_clamped(f, pq) == trial_subtracted(f, pq, mpi_mulsubuuk(f.a, f.pr, f.b, pq))

\* the round taken when flag is set, from the quotient pq0 of the division on
moduu_trial(f, pq0) ==
    trial_clamped(f, IF pq0 > Base - 1 THEN Base - 1 ELSE pq0)

\* the round taken when flag is clear
moduu_compare(f) ==
    IF Read(f.a, f.pr + MPI_NUMBER_SIZE - 1) # 0
    THEN IF mpi_cmp(f.a, f.pr, f.b) >= 0
         THEN moduu_reflag(touch(f, f.pr, f.pr + MPI_NUMBER_SIZE - 1, 0, MPI_NUMBER_SIZE - 1),
                           mpi_sub(f.a, f.pr, f.b),
                           [NoRound EXCEPT !.branch = "sub"])
         ELSE moduu_next([touch(f, f.pr, f.pr + MPI_NUMBER_SIZE - 1, 0, MPI_NUMBER_SIZE - 1)
                          EXCEPT !.flag = 1,
                                 !.last = [NoRound EXCEPT !.branch = "less"]])
    ELSE moduu_next([touch(f, f.pr + MPI_NUMBER_SIZE - 1, f.pr + MPI_NUMBER_SIZE - 1,
                           f.blo, f.bhi)
                     EXCEPT !.last = [NoRound EXCEPT !.branch = "skip"]])

\* the division by b[N-1] = 0 stops the program in the middle of the round
moduu_trap(f) ==
    [touch(f, f.pr + MPI_NUMBER_SIZE - 1, f.pr + MPI_NUMBER_SIZE,
           MPI_NUMBER_SIZE - 1, MPI_NUMBER_SIZE - 1)
     EXCEPT !.fault = TRUE, !.rounds = f.rounds + 1,
            !.last = [NoRound EXCEPT !.branch = "trial"]]

\* one round of the do-while loop
moduu_round(f) ==
    IF f.flag # 0
    THEN IF Read(f.b, MPI_NUMBER_SIZE - 1) = 0
         THEN moduu_trap(f)
         ELSE moduu_trial(f, moduu_pq(f))
    ELSE moduu_compare(f)

RECURSIVE moduu_loop(_)
RECURSIVE moduu_while(_)
moduu_loop(f) == moduu_while(moduu_round(f))
moduu_while(g) == IF g.fault \/ g.count = 0 THEN g ELSE moduu_loop(g)

\* the whole call
mpi_moduu(a, b) == moduu_loop(moduu_enter(a, b))

(* mpi_moduu run round by round, b normalized *)

InitMod ==
    /\ MPI_NUMBER_SIZE = NumberSize
    /\ wbits = WordBits
    /\ pc = "loop"
    /\ arg = Idle
    /\ out = Idle
    /\ \E a \in Dividends, b \in Numbers(MPI_NUMBER_SIZE) :
          /\ Normalized(b)
          /\ moduu = moduu_enter(a, b)
    /\ powm = Idle

ModStep(g) ==
    /\ moduu' = g
    /\ pc' = IF g.fault THEN "fault" ELSE IF g.count = 0 THEN "done" ELSE "loop"
    /\ UNCHANGED <<MPI_NUMBER_SIZE, wbits, arg, out, powm>>

RoundFlagSet ==
    /\ pc = "loop"
    /\ moduu.flag # 0
    /\ Read(moduu.b, MPI_NUMBER_SIZE - 1) # 0
    /\ ModStep(moduu_round(moduu))

RoundFlagClear ==
    /\ pc = "loop"
    /\ moduu.flag = 0
    /\ ModStep(moduu_round(moduu))

NextMod == RoundFlagSet \/ RoundFlagClear

SpecMod == InitMod /\ [][NextMod]_vars


(* mpi_moduu run round by round, b any N words, normalized or not *)

InitModAny ==
    /\ MPI_NUMBER_SIZE = NumberSize
    /\ wbits = WordBits
    /\ pc = "loop"
    /\ arg = Idle
    /\ out = Idle
    /\ \E a \in Dividends, b \in Numbers(MPI_NUMBER_SIZE) :
          moduu = moduu_enter(a, b)
    /\ powm = Idle

\* pq /= b[N-1] with b[N-1] = 0 is undefined: the division traps, or the
\* divide instruction delivers 0 or all ones and the round goes on
DivideByZero ==
    /\ pc = "loop"
    /\ moduu.flag # 0
    /\ Read(moduu.b, MPI_NUMBER_SIZE - 1) = 0
    /\ \/ ModStep(moduu_round(moduu))
       \/ \E q \in {0, Base * Base - 1} : ModStep(moduu_trial(moduu, q))

NextModAny == RoundFlagSet \/ RoundFlagClear \/ DivideByZero

SpecModAny == InitModAny /\ [][NextModAny]_vars

----------------------------------------------------------------------------
(* mpi_powm65537: m becomes m ^ 65537 % n *)

\* uint8_t count = 16
SquareCount == 16

\* mutant: count = 15
powm_enter_short(m, n) ==
    [m |-> m, n |-> n, bufprod |-> Zero(2 * MPI_NUMBER_SIZE), bufmod |-> Zero(MPI_NUMBER_SIZE),
     count |-> U8(SquareCount - 1), m0 |-> m, n0 |-> n, calls |-> <<>>, oob |-> FALSE]

\* the frame on entry; bufprod and bufmod are not yet written
powm_enter(m, n) ==
    [m |-> m, n |-> n,
     bufprod |-> Zero(2 * MPI_NUMBER_SIZE),
     bufmod |-> Zero(MPI_NUMBER_SIZE),
     count |-> U8(SquareCount),
     m0 |-> m,          \* the message as passed
     n0 |-> n,          \* the modulus as passed
     calls |-> <<>>,    \* the calls made so far, in order
     oob |-> FALSE]     \* some call touched memory outside its buffers

\* memcpy(dst, src, MPI_NUMBER_SIZE*2): the low N words of src
memcpy(dst, src) ==
    [i \in DOMAIN dst |-> IF i < MPI_NUMBER_SIZE THEN Read(src, i) ELSE dst[i]]

\* the frame after a call of mpi_muluu that left r
powm_product(f, r, call) ==
    [f EXCEPT !.bufprod = r.c,
              !.calls = Append(f.calls, call),
              !.oob = f.oob \/ r.oob]

\* mpi_muluu(bufprod, bufmod, bufmod)
powm_square(f, junk) ==
    powm_product(f, mpi_muluu(f.bufprod, f.bufmod, f.bufmod, junk), "muluu(bufmod,bufmod)")

\* mutant: the final multiplication squares once more
powm_multiply_squares(f, junk) ==
    powm_product(f, mpi_muluu(f.bufprod, f.bufmod, f.bufmod, junk), "muluu(bufmod,m)")

\* mpi_muluu(bufprod, bufmod, m)
powm_multiply(f, junk) ==
    powm_product(f, mpi_muluu(f.bufprod, f.bufmod, f.m, junk), "muluu(bufmod,m)")

\* the frame after a call of mpi_moduu that left r
powm_remainder(f, r) ==
    [f EXCEPT !.bufprod = r.a,
              !.n = r.b,
              !.calls = Append(f.calls, "moduu(bufprod,n)")]

\* mpi_moduu(bufprod, n)
powm_reduce(f) == powm_remainder(f, mpi_moduu(f.bufprod, f.n))

\* memcpy(bufmod, bufprod, MPI_NUMBER_SIZE*2), --count
powm_copy_back(f) ==
    [f EXCEPT !.bufmod = memcpy(f.bufmod, f.bufprod), !.count = U8(f.count - 1)]

\* memcpy(m, bufprod, MPI_NUMBER_SIZE*2)
powm_copy_out(f) == [f EXCEPT !.m = memcpy(f.m, f.bufprod)]

\* the junk a call of mpi_muluu may pick up: none unless its second sweep
\* runs past the operands
MulJunk ==
    IF DoWhile(MPI_NUMBER_SIZE - 1) = MPI_NUMBER_SIZE - 1
    THEN {0}
    ELSE {0, 1, Base - 1}

PowStep(g, to) ==
    /\ powm' = g
    /\ pc' = to
    /\ UNCHANGED <<MPI_NUMBER_SIZE, wbits, arg, out, moduu>>

\* memcpy(bufmod, m, MPI_NUMBER_SIZE*2)
PowEnter ==
    /\ pc = "enter"
    /\ PowStep([powm EXCEPT !.bufmod = memcpy(powm.bufmod, powm.m)], "square")

PowSquare ==
    /\ pc = "square"
    /\ \E junk \in MulJunk : PowStep(powm_square(powm, junk), "square_reduce")

PowLoop(h) == PowStep(h, IF h.count # 0 THEN "square" ELSE "multiply")

\* mpi_moduu, memcpy(bufmod, bufprod), while(--count)
PowSquareReduce ==
    /\ pc = "square_reduce"
    /\ PowLoop(powm_copy_back(powm_reduce(powm)))

PowMultiply ==
    /\ pc = "multiply"
    /\ \E junk \in MulJunk : PowStep(powm_multiply(powm, junk), "multiply_reduce")

\* mpi_moduu, memcpy(m, bufprod)
PowMultiplyReduce ==
    /\ pc = "multiply_reduce"
    /\ PowStep(powm_copy_out(powm_reduce(powm)), "done")

NextPow == PowEnter \/ PowSquare \/ PowSquareReduce \/ PowMultiply \/ PowMultiplyReduce

InitPow ==
    /\ MPI_NUMBER_SIZE = NumberSize
    /\ wbits = WordBits
    /\ pc = "enter"
    /\ arg = Idle
    /\ out = Idle
    /\ moduu = Idle
    /\ \E m \in Numbers(MPI_NUMBER_SIZE), n \in Numbers(MPI_NUMBER_SIZE) :
          /\ Normalized(n)
          /\ powm = powm_enter(m, n)

SpecPow == InitPow /\ [][NextPow]_vars

(* mpi_powm65537 built for one 8-bit word: n = 0xD3 and small messages *)

InitPowN1 ==
    /\ MPI_NUMBER_SIZE = 1
    /\ wbits = 8
    /\ pc = "enter"
    /\ arg = Idle
    /\ out = Idle
    /\ moduu = Idle
    /\ \E m \in [{0} -> {0, 1, 2, 5, 210, 255}], n \in [{0} -> {128, 211, 255}] :
          powm = powm_enter(m, n)

SpecPowN1 == InitPowN1 /\ [][NextPow]_vars

----------------------------------------------------------------------------
(* mpi_add called on its own *)

InitAdd ==
    /\ MPI_NUMBER_SIZE = NumberSize
    /\ wbits = WordBits
    /\ pc = "call"
    /\ arg \in [dest : Numbers(MPI_NUMBER_SIZE), src : Numbers(MPI_NUMBER_SIZE)]
    /\ out = Idle
    /\ moduu = Idle
    /\ powm = Idle

CallAdd ==
    /\ pc = "call"
    /\ out' = [src |-> arg.src, r |-> mpi_add(arg.dest, 0, arg.src)]
    /\ pc' = "done"
    /\ UNCHANGED <<MPI_NUMBER_SIZE, wbits, arg, moduu, powm>>

NextAdd == CallAdd

SpecAdd == InitAdd /\ [][NextAdd]_vars

(* mpi_mulsubuuk called on its own *)

InitMulsub ==
    /\ MPI_NUMBER_SIZE = NumberSize
    /\ wbits = WordBits
    /\ pc = "call"
    /\ arg \in [c : Numbers(MPI_NUMBER_SIZE + 1), a : Numbers(MPI_NUMBER_SIZE), b : Digits]
    /\ out = Idle
    /\ moduu = Idle
    /\ powm = Idle

CallMulsub ==
    /\ pc = "call"
    /\ out' = [a |-> arg.a, r |-> mpi_mulsubuuk(arg.c, 0, arg.a, arg.b)]
    /\ pc' = "done"
    /\ UNCHANGED <<MPI_NUMBER_SIZE, wbits, arg, moduu, powm>>

NextMulsub == CallMulsub

SpecMulsub == InitMulsub /\ [][NextMulsub]_vars

----------------------------------------------------------------------------
(* Properties *)

N1 == MPI_NUMBER_SIZE
BaseN == Base ^ MPI_NUMBER_SIZE

\* C1: after mpi_powm65537(m, n) with n normalized, the N words of m hold
\* (m_initial ^ 65537) mod n, for every m (0, 1, n-1 and m >= n included),
\* and n is as it was passed.
C1_PowmResult ==
    pc = "done" =>
        /\ Val(powm.m, 0, N1) = ModExp(Val(powm.m0, 0, N1), 65537, Val(powm.n0, 0, N1))
        /\ powm.n = powm.n0

\* a call with m >= n has returned a result other than 0 and 1
C1_Witness ==
    /\ pc = "done"
    /\ Val(powm.m0, 0, N1) >= Val(powm.n0, 0, N1)
    /\ Val(powm.m, 0, N1) > 1

\* C2: after mpi_moduu(a, b) with b normalized, the low N words of a hold
\* a_initial mod b, a value strictly below b.
C2_Remainder ==
    pc = "done" =>
        /\ Val(moduu.a, 0, N1) = Val(moduu.a0, 0, 2 * N1) % Val(moduu.b, 0, N1)
        /\ Val(moduu.a, 0, N1) < Val(moduu.b, 0, N1)

\* a division whose quotient needs N+1 words has left a remainder above 0
C2_Witness ==
    /\ pc = "done"
    /\ Val(moduu.a0, 0, 2 * N1) >= BaseN * Val(moduu.b, 0, N1)
    /\ Val(moduu.a, 0, N1) > 0

\* C3: mpi_muluu(c, a, b) stores exactly the 2N words c[0..2N-1], which hold
\* the exact product a*b; a and b are as they were passed.
C3_Product ==
    pc = "done" =>
        /\ Val(out.r.c, 0, 2 * N1) = Val(arg.a, 0, N1) * Val(arg.b, 0, N1)
        /\ out.r.stores = 2 * N1
        /\ ~out.r.oob
        /\ out.a = arg.a /\ out.b = arg.b

\* the all-ones maximum has been squared
C3_Witness ==
    /\ pc = "done"
    /\ arg.a = arg.b
    /\ Val(arg.a, 0, N1) = BaseN - 1
    /\ Val(out.r.c, 0, 2 * N1) = (BaseN - 1) * (BaseN - 1)

\* C4: built for N = 1 with 8-bit words, mpi_powm65537 with n = 0xD3 and
\* m = 0x05 leaves m = 13 = (5^65537) mod 0xD3, and no multiplication of the
\* 17 rounds touches a word outside its buffers.
C4_SmallestWidth ==
    (pc = "done" /\ MPI_NUMBER_SIZE = 1 /\ powm.m0[0] = 5 /\ powm.n0[0] = 211) =>
        /\ powm.m[0] = 13
        /\ ~powm.oob

\* C5: mpi_moduu with a divisor that is not normalized never faults: it
\* runs to completion whatever the dividend.
C5_NoFault == ~Normalized(moduu.b) => pc # "fault"

\* C6 as stated: the flag returned by mpi_mulsubuuk is 1 exactly when
\* c - a*b underflowed the N+1 words of c, that is when c_initial < a*b.
C6_BorrowFlag ==
    pc = "done" =>
        (out.r.ret = 1 <=> Val(arg.c, 0, N1 + 1) < Val(arg.a, 0, N1) * arg.b)

\* C6 amended: the flag returned by mpi_mulsubuuk is a not-borrow flag: it is
\* 1 exactly when c_initial >= a*b (no underflow) and 0 exactly when
\* c_initial < a*b; the N+1 words of c hold c_initial - a*b modulo Base^(N+1).
C6_NotBorrowFlag ==
    pc = "done" =>
        /\ out.r.ret \in {0, 1}
        /\ out.r.ret = 1 <=> Val(arg.c, 0, N1 + 1) >= Val(arg.a, 0, N1) * arg.b
        /\ Val(out.r.c, 0, N1 + 1) =
               (Val(arg.c, 0, N1 + 1) - Val(arg.a, 0, N1) * arg.b) % (Base * BaseN)

\* a subtraction has underflowed and returned 0
C6_Witness ==
    /\ pc = "done"
    /\ Val(arg.c, 0, N1 + 1) < Val(arg.a, 0, N1) * arg.b
    /\ out.r.ret = 0

\* C7: mpi_add leaves dest = (dest_initial + src) mod Base^N and returns 1
\* exactly when dest_initial + src > Base^N - 1, else 0; src is as passed.
C7_AddCarry ==
    pc = "done" =>
        LET sum == Val(arg.dest, 0, N1) + Val(arg.src, 0, N1)
        IN /\ Val(out.r.dest, 0, N1) = sum % BaseN
           /\ out.r.ret = (IF sum > BaseN - 1 THEN 1 ELSE 0)
           /\ out.src = arg.src

\* all-ones plus 1 has returned carry 1 and left dest all zero
C7_Witness ==
    /\ pc = "done"
    /\ Val(arg.dest, 0, N1) = BaseN - 1
    /\ Val(arg.src, 0, N1) = 1
    /\ out.r.ret = 1
    /\ out.r.dest = Zero(N1)

\* C8: with b normalized, a round of mpi_moduu that takes the flag-set branch
\* adds b back at most twice and only when the multiply-subtract underflowed,
\* and ends with pr[N] = 0 and pr[0..N-1] < b; a second add-back always
\* carries out of pr[N].  (The round has already moved pr down by one.)
C8_TrialCorrected ==
    moduu.last.branch = "trial" =>
        LET r == moduu.last
            b == Val(moduu.b, 0, N1)
        IN /\ r.nadd <= 2
           /\ r.nadd > 0 => r.before < r.pq * b
           /\ r.before >= r.pq * b => r.nadd = 0
           /\ Read(moduu.a, moduu.pr + 1 + N1) = 0
           /\ Val(moduu.a, moduu.pr + 1, N1) < b
           /\ Val(moduu.a, moduu.pr + 1, N1) = r.before % b
           /\ r.nadd = 2 => r.carry = 1

\* a round has added the divisor back twice
C8_Witness == moduu.last.branch = "trial" /\ moduu.last.nadd = 2

\* the calls of one mpi_powm65537: 16 times square and reduce, then multiply
\* by m and reduce
PowmSchedule ==
    [i \in 1 .. 34 |->
        IF i % 2 = 0 THEN "moduu(bufprod,n)"
        ELSE IF i < 33 THEN "muluu(bufmod,bufmod)"
        ELSE "muluu(bufmod,m)"]

\* C9: whatever m and n, mpi_powm65537 makes 17 multiply and 17 reduce calls,
\* alternating multiply, reduce: 16 squarings of the working value, then one
\* multiplication by m, which still holds the original; m is overwritten only
\* after the 17th reduce.
C9_Schedule ==
    /\ Len(powm.calls) <= 34
    /\ powm.calls = SubSeq(PowmSchedule, 1, Len(powm.calls))
    /\ pc = "done" => powm.calls = PowmSchedule
    /\ pc # "done" => powm.m = powm.m0

\* a call has returned after all 34 calls, with m overwritten
C9_Witness == pc = "done" /\ Len(powm.calls) = 34 /\ powm.m # powm.m0

\* every word touched through pr lies in a[0..2N-1] and every word of b
\* touched in b[0..N-1]; the first round does not take the flag-set branch
WindowAccesses ==
    /\ moduu.rounds > 0 => (0 <= moduu.lo /\ moduu.hi <= 2 * N1 - 1)
    /\ moduu.bhi >= 0 => (0 <= moduu.blo /\ moduu.bhi <= N1 - 1)
    /\ moduu.rounds = 1 => moduu.last.branch # "trial"

\* C10 as stated: for every dividend and divisor, every access through pr is
\* inside a[0..2N-1], every read of b inside b[0..N-1], pr[N] is not touched in the first round, and pr
\* never moves below a[0] during the N+1 rounds.
C10_WindowNeverBelow ==
    /\ WindowAccesses
    /\ moduu.pr >= 0

\* C10 amended: for every dividend and divisor, every access through pr is
\* inside a[0..2N-1], every read of b inside b[0..N-1], pr[N] is not touched in the first round, and pr is at
\* or above a[0] whenever a round runs; the pr-- closing the last round
\* leaves pr one word below a[0], where it is never dereferenced.
C10_WindowAccessesInBounds ==
    /\ WindowAccesses
    /\ pc = "loop" => moduu.pr >= 0
    /\ pc = "fault" => moduu.pr >= 0
    /\ pc = "done" => (moduu.pr = -1 /\ moduu.rounds = N1 + 1)

\* the last round has run with the window at a[0..N]
C10_Witness ==
    /\ pc = "done"
    /\ moduu.last.branch = "trial"
    /\ moduu.lo = 0
    /\ moduu.hi = 2 * N1 - 1

====
